---- MODULE Spec2Model ----
(***************************************************************************)
(* NASA Worldview assistant: the layer resolution tool (worldview_link in  *)
(* tools/worldview.py) and the tool-invocation loop (llm_node in graph.py). *)
(*                                                                         *)
(* Python strings are modelled as sequences of one-character strings, so   *)
(* that lower(), strip(), split(), startswith() and the `in` substring     *)
(* test are computed character by character, as the code computes them.    *)
(***************************************************************************)
EXTENDS Integers, Sequences, FiniteSets, TLC

(* ------------------------------------------------------------------ *)
(* Python str primitives                                               *)
(* ------------------------------------------------------------------ *)

\* None where a bbox string is expected
None == "None"

\* None where a layer id is expected (falsy, like the empty string)
NoId == <<>>

\* None where a date string is expected
NoDate == [given |-> FALSE, text |-> "", parses |-> FALSE, day |-> "", time |-> ""]

\* None where a layers list is expected
NoLayers == [given |-> FALSE, list |-> <<>>]

\* None where a parsed catalog is expected
NoConfig == [available |-> FALSE, is_dict |-> FALSE, has_layers |-> FALSE,
             layers_is_dict |-> FALSE, layers |-> <<>>]

\* a local that is not yet assigned
Unset == [set |-> FALSE, value |-> <<>>]

\* a local that is assigned
Assigned(v) == [set |-> TRUE, value |-> v]

Upper == <<"A","B","C","D","E","F","G","H","I","J","K","L","M","N","O","P","Q","R","S","T","U","V","W","X","Y","Z">>

LowerAlpha == <<"a","b","c","d","e","f","g","h","i","j","k","l","m","n","o","p","q","r","s","t","u","v","w","x","y","z">>

\* str.lower() on one character
LowerChar(c) ==
    IF \E i \in 1..Len(Upper) : Upper[i] = c
    THEN LowerAlpha[CHOOSE i \in 1..Len(Upper) : Upper[i] = c]
    ELSE c

\* str.lower()
Lower(s) == [i \in 1..Len(s) |-> LowerChar(s[i])]

\* p in s (substring test)
Contains(s, p) ==
    \E i \in 0..(Len(s) - Len(p)) : SubSeq(s, i + 1, i + Len(p)) = p

\* s.startswith(p)
StartsWith(s, p) == Len(p) <= Len(s) /\ SubSeq(s, 1, Len(p)) = p

\* s.find(p): 1-based index of the first occurrence, 0 when there is none
Find(s, p) ==
    IF Contains(s, p)
    THEN 1 + CHOOSE i \in 0..(Len(s) - Len(p)) :
             /\ SubSeq(s, i + 1, i + Len(p)) = p
             /\ \A j \in 0..(i - 1) : SubSeq(s, j + 1, j + Len(p)) # p
    ELSE 0

\* s.strip()
RECURSIVE Strip(_)
Strip(s) ==
    IF s = <<>> THEN s
    ELSE IF Head(s) = " " THEN Strip(Tail(s))
    ELSE IF s[Len(s)] = " " THEN Strip(SubSeq(s, 1, Len(s) - 1))
    ELSE s

\* s.split(sep), sep non-empty: empty pieces are kept
RECURSIVE Split(_, _)
Split(s, sep) ==
    LET k == Find(s, sep) IN
    IF k = 0 THEN <<s>>
    ELSE <<SubSeq(s, 1, k - 1)>> \o Split(SubSeq(s, k + Len(sep), Len(s)), sep)

\* s.split(): split on runs of whitespace, no empty pieces
RECURSIVE SplitWs(_)
SplitWs(s) ==
    LET t == Strip(s) IN
    IF t = <<>> THEN <<>>
    ELSE LET k == Find(t, <<" ">>) IN
         IF k = 0 THEN <<t>>
         ELSE <<SubSeq(t, 1, k - 1)>> \o SplitWs(SubSeq(t, k + 1, Len(t)))

\* s.replace(a, b) for one-character a and b
Replace1(s, a, b) == [i \in 1..Len(s) |-> IF s[i] = a THEN b ELSE s[i]]

\* x in list
InList(x, list) == \E i \in 1..Len(list) : list[i] = x

\* list[:n]
Take(list, n) == SubSeq(list, 1, IF Len(list) < n THEN Len(list) ELSE n)

(* ------------------------------------------------------------------ *)
(* tools/worldview.py: tables                                          *)
(* ------------------------------------------------------------------ *)

\* BBOX_HINTS, in declaration order (a dict iterates in insertion order)
BBOX_HINTS == <<
    [key |-> <<"b","a","n","g","l","a","d","e","s","h">>,      value |-> "87,20,93,27"],
    [key |-> <<"c","a","l","i","f","o","r","n","i","a">>,      value |-> "-130,32,-114,43"],
    [key |-> <<"g","r","e","e","c","e">>,          value |-> "18,34,30,42"],
    [key |-> <<"s","a","h","a","r","a">>,          value |-> "-20,15,30,35"],
    [key |-> <<"a","m","a","z","o","n">>,          value |-> "-75,-15,-45,5"],
    [key |-> <<"p","h","i","l","i","p","p","i","n","e","s">>,     value |-> "117,5,127,21"],
    [key |-> <<"w","e","s","t","e","r","n"," ","c","a","n","a","d","a">>,  value |-> "-140,45,-110,65"],
    [key |-> <<"a","l","p","s">>,            value |-> "5,43,15,48"],
    [key |-> <<"j","a","p","a","n">>,           value |-> "128,30,148,46"],
    [key |-> <<"i","c","e","l","a","n","d">>,         value |-> "-26,62,-12,68"],
    [key |-> <<"m","i","d","d","l","e"," ","e","a","s","t">>,     value |-> "30,12,60,38"],
    [key |-> <<"n","o","r","t","h","e","r","n"," ","i","n","d","i","a">>,  value |-> "74,22,87,32"],
    [key |-> <<"e","a","s","t","e","r","n"," ","e","u","r","o","p","e">>,  value |-> "18,44,40,56"],
    [key |-> <<"p","o","r","t","u","g","a","l">>,        value |-> "-10,36,-5,43"],
    [key |-> <<"g","u","l","f"," ","o","f"," ","m","e","x","i","c","o">>,  value |-> "-97,18,-81,30"] >>

\* KEYWORD_HINTS, in declaration order
KEYWORD_HINTS == <<
    [kw |-> <<"f","i","r","e">>,        patterns |-> <<<<"T","h","e","r","m","a","l","_","A","n","o","m","a","l","i","e","s">>, <<"F","i","r","e","s">>, <<"F","I","R","M","S">>, <<"V","I","I","R","S">>, <<"M","O","D","I","S">>>>],
    [kw |-> <<"f","i","r","e","s">>,       patterns |-> <<<<"T","h","e","r","m","a","l","_","A","n","o","m","a","l","i","e","s">>, <<"F","i","r","e","s">>, <<"F","I","R","M","S">>, <<"V","I","I","R","S">>, <<"M","O","D","I","S">>>>],
    [kw |-> <<"s","m","o","k","e">>,       patterns |-> <<<<"A","e","r","o","s","o","l">>, <<"A","O","D">>, <<"S","m","o","k","e">>>>],
    [kw |-> <<"a","e","r","o","s","o","l">>,     patterns |-> <<<<"A","e","r","o","s","o","l">>, <<"A","O","D">>, <<"O","M","I">>, <<"V","I","I","R","S">>, <<"M","O","D","I","S">>>>],
    [kw |-> <<"a","o","d">>,         patterns |-> <<<<"A","O","D">>, <<"A","e","r","o","s","o","l">>>>],
    [kw |-> <<"d","u","s","t">>,        patterns |-> <<<<"D","u","s","t">>, <<"A","e","r","o","s","o","l">>, <<"A","I">>>>],
    [kw |-> <<"s","n","o","w">>,        patterns |-> <<<<"S","n","o","w">>, <<"S","n","o","w","_","C","o","v","e","r">>, <<"S","C">>>>],
    [kw |-> <<"s","s","t">>,         patterns |-> <<<<"S","e","a","_","S","u","r","f","a","c","e","_","T","e","m","p","e","r","a","t","u","r","e">>, <<"S","S","T">>, <<"G","H","R","S","S","T">>, <<"V","I","I","R","S">>>>],
    [kw |-> <<"t","e","m","p","e","r","a","t","u","r","e">>, patterns |-> <<<<"T","e","m","p","e","r","a","t","u","r","e">>, <<"S","S","T">>>>],
    [kw |-> <<"t","r","u","e"," ","c","o","l","o","r">>,  patterns |-> <<<<"C","o","r","r","e","c","t","e","d","R","e","f","l","e","c","t","a","n","c","e","_","T","r","u","e","C","o","l","o","r">>>>],
    [kw |-> <<"f","l","o","o","d">>,       patterns |-> <<<<"F","l","o","o","d">>, <<"S","u","r","f","a","c","e","_","W","a","t","e","r">>, <<"W","a","t","e","r","_","E","x","t","e","n","t">>>>],
    [kw |-> <<"f","l","o","o","d","i","n","g">>,    patterns |-> <<<<"F","l","o","o","d">>, <<"S","u","r","f","a","c","e","_","W","a","t","e","r">>, <<"W","a","t","e","r","_","E","x","t","e","n","t">>>>] >>

\* the keyword groups of _offline_select_from_query, in the order of its if statements
OfflineGroups == <<
    [keys |-> <<<<"f","i","r","e">>, <<"f","i","r","e","s">>, <<"w","i","l","d","f","i","r","e">>, <<"w","i","l","d","f","i","r","e","s">>>>,
     pick |-> <<"M","O","D","I","S","_","T","e","r","r","a","_","T","h","e","r","m","a","l","_","A","n","o","m","a","l","i","e","s","_","N","i","g","h","t">>],
    [keys |-> <<<<"s","m","o","k","e">>, <<"a","e","r","o","s","o","l">>, <<"a","o","d">>, <<"h","a","z","e">>, <<"p","l","u","m","e">>>>,
     pick |-> <<"M","O","D","I","S","_","T","e","r","r","a","_","A","e","r","o","s","o","l">>],
    [keys |-> <<<<"s","n","o","w">>, <<"s","n","o","w"," ","c","o","v","e","r">>, <<"i","c","e">>, <<"g","l","a","c","i","e","r">>>>,
     pick |-> <<"M","O","D","I","S","_","T","e","r","r","a","_","S","n","o","w","_","C","o","v","e","r","_","D","a","i","l","y">>],
    [keys |-> <<<<"s","s","t">>, <<"s","e","a"," ","s","u","r","f","a","c","e"," ","t","e","m","p","e","r","a","t","u","r","e">>, <<"s","e","a","-","s","u","r","f","a","c","e"," ","t","e","m","p","e","r","a","t","u","r","e">>, <<"o","c","e","a","n"," ","t","e","m","p">>>>,
     pick |-> <<"G","H","R","S","S","T","_","L","4","_","M","U","R","_","S","e","a","_","S","u","r","f","a","c","e","_","T","e","m","p","e","r","a","t","u","r","e">>],
    [keys |-> <<<<"a","s","h">>, <<"v","o","l","c","a","n","i","c">>, <<"v","o","l","c","a","n","o">>, <<"s","o","2">>>>,
     pick |-> <<"O","M","I","_","S","O","2","_","C","o","l","u","m","n","_","A","m","o","u","n","t">>],
    [keys |-> <<<<"f","l","o","o","d">>, <<"f","l","o","o","d","i","n","g">>, <<"s","u","r","f","a","c","e"," ","w","a","t","e","r">>, <<"w","a","t","e","r"," ","e","x","t","e","n","t">>, <<"i","n","u","n","d","a","t","i","o","n">>>>,
     pick |-> <<"V","I","I","R","S","_","S","N","P","P","_","F","l","o","o","d","_","W","a","t","e","r","_","C","o","m","p","o","s","i","t","e">>],
    [keys |-> <<<<"d","u","s","t">>, <<"s","a","n","d">>, <<"b","l","o","w","i","n","g"," ","d","u","s","t">>>>,
     pick |-> <<"O","M","I","_","A","e","r","o","s","o","l","_","I","n","d","e","x">>] >>

\* preferred_ids of _prefer_true_color
preferred_ids == <<
    <<"V","I","I","R","S","_","S","N","P","P","_","C","o","r","r","e","c","t","e","d","R","e","f","l","e","c","t","a","n","c","e","_","T","r","u","e","C","o","l","o","r">>,
    <<"M","O","D","I","S","_","T","e","r","r","a","_","C","o","r","r","e","c","t","e","d","R","e","f","l","e","c","t","a","n","c","e","_","T","r","u","e","C","o","l","o","r">>,
    <<"M","O","D","I","S","_","A","q","u","a","_","C","o","r","r","e","c","t","e","d","R","e","f","l","e","c","t","a","n","c","e","_","T","r","u","e","C","o","l","o","r">> >>

\* the substring that marks a true-color layer id
TrueColorMarker == <<"C","o","r","r","e","c","t","e","d","R","e","f","l","e","c","t","a","n","c","e","_","T","r","u","e","C","o","l","o","r">>

\* the title substring _prefer_true_color falls back on (case-sensitive)
TrueColorTitle == <<"T","r","u","e"," ","C","o","l","o","r">>

\* the query substring that is the user's true-color hint
TrueColorHint == <<"t","r","u","e"," ","c","o","l","o","r">>

\* the fixed default true-color layer of worldview_link
DefaultTrueColor == <<"M","O","D","I","S","_","T","e","r","r","a","_","C","o","r","r","e","c","t","e","d","R","e","f","l","e","c","t","a","n","c","e","_","T","r","u","e","C","o","l","o","r">>

\* seps of _split_query_parts
seps == << <<"+">>, <<",">>, <<" ","a","n","d"," ">>, <<" ","&"," ">> >>

\* the prefixes _split_query_parts strips
prefixes == << <<"s","h","o","w"," ">>, <<"g","i","v","e"," ","m","e"," ">>, <<"d","i","s","p","l","a","y"," ">>, <<"v","i","s","u","a","l","i","z","e"," ">>, <<"m","a","p"," ">>,
               <<"o","v","e","r"," ">>, <<"i","n"," ">>, <<"a","r","o","u","n","d"," ">>, <<"n","e","a","r"," ">> >>

\* max_layers of _search_layers, and the 4 of worldview_link's merge and final slice
max_layers == 4

\* the cap of _offline_select_from_query (out[:3])
OfflineCap == 3

\* score_layer's increments
ScoreContain == 10

ScoreTokenTitle == 2

ScoreTokenId == 1

ScoreHint == 3

(* ------------------------------------------------------------------ *)
(* tools/worldview.py: pure functions                                  *)
(* ------------------------------------------------------------------ *)

\* today's date, the value of datetime.now(timezone.utc) at call time
Today == "today"

\* _iso_date: absent or empty -> today at midnight; a date or instant that
\* datetime.fromisoformat parses -> its UTC instant; anything else -> today
_iso_date(dt) ==
    IF ~dt.given \/ dt.text = ""
    THEN [day |-> Today, time |-> "00:00:00"]
    ELSE IF dt.parses
         THEN [day |-> dt.day, time |-> dt.time]
         ELSE [day |-> Today, time |-> "00:00:00"]

_default_bbox == "-180,-90,180,90"

\* any("CorrectedReflectance_TrueColor" in lid for lid in selected)
has_true_color(selected) ==
    \E i \in 1..Len(selected) : Contains(selected[i], TrueColorMarker)

\* config.get("layers", {}) for a config that is a JSON object
LayersOf(config) == IF config.has_layers THEN config.layers ELSE <<>>

\* pid in layers
HasLayer(layers, lid) == \E i \in 1..Len(layers) : layers[i].id = lid

\* _prefer_true_color: first preferred id present, else the first layer whose id
\* carries the marker or whose title contains "True Color", else None
_prefer_true_color(config) ==
    LET layers == LayersOf(config)
        pref == {i \in 1..Len(preferred_ids) : HasLayer(layers, preferred_ids[i])}
        fall == {i \in 1..Len(layers) :
                    \/ Contains(layers[i].id, TrueColorMarker)
                    \/ Contains(layers[i].title, TrueColorTitle)}
    IN  IF pref # {} THEN preferred_ids[CHOOSE i \in pref : \A j \in pref : i <= j]
        ELSE IF fall # {} THEN layers[CHOOSE i \in fall : \A j \in fall : i <= j].id
        ELSE NoId

\* whether _prefer_true_color raises: layers.items() on a "layers" that is no
\* JSON object, or meta.get on a meta that is none, reached before any match
PreferTrueColorRaises(config) ==
    LET layers == LayersOf(config) IN
    \/ ~config.is_dict
    \/ ~config.layers_is_dict
    \/ /\ \A i \in 1..Len(preferred_ids) : ~HasLayer(layers, preferred_ids[i])
       /\ \E i \in 1..Len(layers) :
             /\ ~layers[i].meta_is_dict
             /\ \A j \in 1..(i - 1) :
                   /\ ~Contains(layers[j].id, TrueColorMarker)
                   /\ ~Contains(layers[j].title, TrueColorTitle)

\* any(k in ql for k in keys)
AnyKey(ql, keys) == \E i \in 1..Len(keys) : Contains(ql, keys[i])

\* the picks list of _offline_select_from_query after its first i if statements
RECURSIVE OfflinePicks(_, _)
OfflinePicks(ql, i) ==
    IF i = 0 THEN <<>>
    ELSE LET before == OfflinePicks(ql, i - 1) IN
         IF AnyKey(ql, OfflineGroups[i].keys)
         THEN Append(before, OfflineGroups[i].pick)
         ELSE before

\* order-preserving dedupe: for x in list: if x not in out: out.append(x)
RECURSIVE Dedupe(_)
Dedupe(list) ==
    IF list = <<>> THEN <<>>
    ELSE LET before == Dedupe(SubSeq(list, 1, Len(list) - 1))
             last == list[Len(list)]
         IN  IF InList(last, before) THEN before ELSE Append(before, last)

_offline_select_from_query(q) ==
    Take(Dedupe(OfflinePicks(Lower(q), Len(OfflineGroups))), OfflineCap)

\* [s.strip() for s in p.split(sep) if s.strip()]
RECURSIVE StripNonEmpty(_)
StripNonEmpty(pieces) ==
    IF pieces = <<>> THEN <<>>
    ELSE LET s == Strip(Head(pieces)) IN
         (IF s # <<>> THEN <<s>> ELSE <<>>) \o StripNonEmpty(Tail(pieces))

\* tmp after the inner loop `for p in parts: tmp.extend(...)` for one separator
RECURSIVE SplitEach(_, _)
SplitEach(parts, sep) ==
    IF parts = <<>> THEN <<>>
    ELSE StripNonEmpty(Split(Head(parts), sep)) \o SplitEach(Tail(parts), sep)

\* the loop `for sep in seps` of _split_query_parts from its i-th separator on.
\* `parts = tmp` (line 132) stands after the loop, not in it: every round
\* splits the original parts, and tmp is reset at the start of each round.
RECURSIVE SepLoop(_, _, _)
SepLoop(parts, tmp, i) ==
    IF i > Len(seps) THEN tmp
    ELSE SepLoop(parts, SplitEach(parts, seps[i]), i + 1)

\* the inner loop over prefixes: every prefix is tested in order against the
\* phrase as stripped so far
RECURSIVE StripPrefixes(_, _)
StripPrefixes(p, i) ==
    IF i > Len(prefixes) THEN p
    ELSE IF StartsWith(p, prefixes[i])
         THEN StripPrefixes(SubSeq(p, Len(prefixes[i]) + 1, Len(p)), i + 1)
         ELSE StripPrefixes(p, i + 1)

\* cleaned: prefix-stripped, then strip()
Cleaned(parts) == [i \in 1..Len(parts) |-> Strip(StripPrefixes(parts[i], 1))]

_split_query_parts(q) ==
    LET ql == Lower(q)
        parts == SepLoop(<<ql>>, <<>>, 1)
    IN  Dedupe(Cleaned(parts))

\* sum over a sequence of integers
RECURSIVE Sum(_)
Sum(ns) == IF ns = <<>> THEN 0 ELSE Head(ns) + Sum(Tail(ns))

\* score_layer of _search_layers
score_layer(layer_id, title, qpart) ==
    LET id_l == Lower(layer_id)
        title_l == Lower(title)
        direct == IF qpart # <<>> /\ (Contains(title_l, qpart) \/ Contains(id_l, qpart))
                  THEN ScoreContain ELSE 0
        tokens == SplitWs(Replace1(qpart, ",", " "))
        tok == [i \in 1..Len(tokens) |->
                   (IF Contains(title_l, tokens[i]) THEN ScoreTokenTitle ELSE 0)
                 + (IF Contains(id_l, tokens[i]) THEN ScoreTokenId ELSE 0)]
        hint == [k \in 1..Len(KEYWORD_HINTS) |->
                   IF Contains(qpart, KEYWORD_HINTS[k].kw)
                   THEN ScoreHint * Cardinality({j \in 1..Len(KEYWORD_HINTS[k].patterns) :
                            \/ Contains(id_l, Lower(KEYWORD_HINTS[k].patterns[j]))
                            \/ Contains(title_l, Lower(KEYWORD_HINTS[k].patterns[j]))})
                   ELSE 0]
    IN  direct + Sum(tok) + Sum(hint)

\* scores of one part: (score, id) of every layer scoring above 0, in catalog order
RECURSIVE Scores(_, _)
Scores(layers, part) ==
    IF layers = <<>> THEN <<>>
    ELSE LET l == Head(layers)
             s == score_layer(l.id, l.title, part)
         IN  (IF s > 0 THEN <<[s |-> s, lid |-> l.id]>> ELSE <<>>) \o Scores(Tail(layers), part)

\* insert one entry into a list sorted by descending score, after its equals
RECURSIVE InsertDesc(_, _)
InsertDesc(sorted, e) ==
    IF sorted = <<>> THEN <<e>>
    ELSE IF Head(sorted).s >= e.s THEN <<Head(sorted)>> \o InsertDesc(Tail(sorted), e)
    ELSE <<e>> \o sorted

\* scores.sort(key=lambda x: x[0], reverse=True): stable, descending
RECURSIVE SortDesc(_)
SortDesc(scores) ==
    IF scores = <<>> THEN <<>>
    ELSE InsertDesc(SortDesc(SubSeq(scores, 1, Len(scores) - 1)), scores[Len(scores)])

\* AppendFirstNew looking at the best-scoring entry only
AppendFirstNew_BestOnly(selected, scores) ==
    IF scores = <<>> \/ InList(Head(scores).lid, selected) THEN selected
    ELSE Append(selected, Head(scores).lid)

\* for _, lid in scores: if lid not in selected: selected.append(lid); break
RECURSIVE AppendFirstNew(_, _)
AppendFirstNew(selected, scores) ==
    IF scores = <<>> THEN selected
    ELSE IF ~InList(Head(scores).lid, selected) THEN Append(selected, Head(scores).lid)
    ELSE AppendFirstNew(selected, Tail(scores))

\* the loop `for part in parts` of _search_layers (lines 186-198)
RECURSIVE PickPerPart(_, _, _)
PickPerPart(layers, parts, selected) ==
    IF parts = <<>> THEN selected
    ELSE LET sel == AppendFirstNew(selected, SortDesc(Scores(layers, Head(parts)))) IN
         IF Len(sel) >= max_layers THEN sel
         ELSE PickPerPart(layers, Tail(parts), sel)

\* whether score_layer raises: meta.get on a meta that is no JSON object
ScoreRaises(layers, parts) ==
    parts # <<>> /\ \E i \in 1..Len(layers) : ~layers[i].meta_is_dict

\* hinted, comparing case-sensitively (the lower() forgotten)
hinted_CaseSensitive(query) == Contains(query, TrueColorHint)

\* "true color" in query.lower()
hinted(query) == Contains(Lower(query), TrueColorHint)

\* lines 200-205 of _search_layers: the insertion of a base true-color layer
\* tc (None when there is none) at the front
InsertTrueColor(selected, query, tc) ==
    IF (hinted(query) \/ Len(selected) = 1) /\ ~has_true_color(selected)
    THEN IF tc # NoId /\ ~InList(tc, selected) THEN <<tc>> \o selected ELSE selected
    ELSE selected

\* _search_layers: [raised |-> TRUE] when an exception leaves it, else its result
_search_layers(config, query) ==
    IF ~config.is_dict THEN [raised |-> TRUE, value |-> <<>>]
    ELSE LET layers == LayersOf(config) IN
         IF ~config.layers_is_dict \/ layers = <<>> THEN [raised |-> FALSE, value |-> <<>>]
         ELSE LET parts == _split_query_parts(query) IN
              IF ScoreRaises(layers, parts) THEN [raised |-> TRUE, value |-> <<>>]
              ELSE LET selected == PickPerPart(layers, parts, <<>>) IN
                   [raised |-> FALSE,
                    value |-> Take(InsertTrueColor(selected, query, _prefer_true_color(config)),
                                   max_layers)]

\* MergeHeuristic without the `lid not in selected` test
RECURSIVE MergeHeuristic_NoDedupe(_, _, _)
MergeHeuristic_NoDedupe(selected, heuristic, i) ==
    IF i > Len(heuristic) THEN selected
    ELSE LET sel == Append(selected, heuristic[i]) IN
         IF Len(sel) >= max_layers THEN sel
         ELSE MergeHeuristic_NoDedupe(sel, heuristic, i + 1)

\* the merge loop of worldview_link (lines 267-271) from the i-th heuristic id on
RECURSIVE MergeHeuristic(_, _, _)
MergeHeuristic(selected, heuristic, i) ==
    IF i > Len(heuristic) THEN selected
    ELSE IF ~InList(heuristic[i], selected)
         THEN LET sel == Append(selected, heuristic[i]) IN
              IF Len(sel) >= max_layers THEN sel
              ELSE MergeHeuristic(sel, heuristic, i + 1)
         ELSE MergeHeuristic(selected, heuristic, i + 1)

\* _infer_bbox returning the hint that comes first in the query, not in the table
_infer_bbox_QueryOrder(query, provided) ==
    IF provided # None /\ provided # "" THEN provided
    ELSE LET ql == Lower(query)
             hits == {i \in 1..Len(BBOX_HINTS) : Contains(ql, BBOX_HINTS[i].key)}
         IN  IF hits # {}
             THEN BBOX_HINTS[CHOOSE i \in hits : \A j \in hits :
                     Find(ql, BBOX_HINTS[i].key) <= Find(ql, BBOX_HINTS[j].key)].value
             ELSE None

\* _infer_bbox: the provided bbox when truthy, else the value of the first
\* BBOX_HINTS key contained in the lower-cased query, else None
_infer_bbox(query, provided) ==
    IF provided # None /\ provided # "" THEN provided
    ELSE LET ql == Lower(query)
             hits == {i \in 1..Len(BBOX_HINTS) : Contains(ql, BBOX_HINTS[i].key)}
         IN  IF hits # {} THEN BBOX_HINTS[CHOOSE i \in hits : \A j \in hits : i <= j].value
             ELSE None

\* _build_worldview_url: the parameters after WV_BASE + "?", in order, to be
\* joined with "&"; the value of l is the list of ids to be joined with ","
_build_worldview_url(layers, t, bbox) ==
    (IF layers # <<>> THEN <<[k |-> "l", v |-> layers]>> ELSE <<>>)
    \o <<[k |-> "t", v |-> t],
         [k |-> "v", v |-> IF bbox # None /\ bbox # "" THEN bbox ELSE _default_bbox]>>

(* ------------------------------------------------------------------ *)
(* Inputs of worldview_link                                            *)
(* ------------------------------------------------------------------ *)

\* longest explicit layers list tried
MaxExplicit == 5

\* the queries tried
Queries == {
    <<>>,
    <<" ","&"," ">>,
    <<"i","r","r","e","l","e","v","a","n","t"," ","t","e","x","t">>,
    <<"s","m","o","k","e">>,
    <<"t","r","u","e"," ","c","o","l","o","r">>,
    <<"T","r","u","e"," ","C","o","l","o","r"," ","f","i","r","e","s">>,
    <<"f","i","r","e","s"," ","i","n"," ","C","a","l","i","f","o","r","n","i","a">>,
    <<"s","m","o","k","e"," ","o","v","e","r"," ","a","m","a","z","o","n">>,
    <<"a","m","a","z","o","n"," ","f","i","r","e","s"," ","n","e","a","r"," ","b","a","n","g","l","a","d","e","s","h">>,
    <<"s","h","o","w"," ","m","a","p"," ","f","i","r","e","s">>,
    <<"t","r","u","e"," ","c","o","l","o","r"," ","+"," ","s","m","o","k","e">>,
    <<"T","r","u","e"," ","C","o","l","o","r"," ","&"," ","s","m","o","k","e">>,
    <<"T","r","u","e"," ","C","o","l","o","r"," ","f","i","r","e","s"," ","&"," ","s","m","o","k","e">>,
    <<"f","i","r","e","s",",","s","m","o","k","e">>,
    <<"f","i","r","e","s"," ","a","n","d"," ","s","m","o","k","e">>,
    <<"f","i","r","e","s"," ","&"," ","s","m","o","k","e">>,
    <<"f","i","r","e","s"," ","&"," ","F","i","r","e","s">>,
    <<"f","i","r","e","s"," ","&"," ","f","i","r","e">>,
    <<"s","n","o","w"," ","&"," ","s","n","o","w"," ","c","o","v","e","r">>,
    <<"a"," ","+"," ","b",","," ","c"," ","a","n","d"," ","d"," ","&"," ","e">>,
    <<"f","i","r","e","s"," ","&"," ","s","m","o","k","e"," ","&"," ","s","n","o","w"," ","&"," ","d","u","s","t">>,
    <<"f","l","o","o","d"," ","&"," ","f","i","r","e","s"," ","&"," ","s","m","o","k","e"," ","&"," ","s","n","o","w"," ","&"," ","d","u","s","t">> }

\* the date arguments tried: absent, a date fromisoformat parses, a malformed one
Dates == {
    NoDate,
    [given |-> TRUE, text |-> "2024-05-01", parses |-> TRUE,
     day |-> "2024-05-01", time |-> "00:00:00"],
    [given |-> TRUE, text |-> "yesterday", parses |-> FALSE, day |-> "", time |-> ""] }

\* the bbox arguments tried: absent, empty, explicit
BBoxes == {None, "", "10,20,30,40"}

\* the ids explicit layers lists are made of
ExplicitIds == {<<"A">>, <<"B">>}

\* the layers arguments tried: absent, empty, and every list of ExplicitIds
LayerArgs ==
    {NoLayers} \cup {[given |-> TRUE, list |-> ls] :
                        ls \in UNION {[1..n -> ExplicitIds] : n \in 0..MaxExplicit}}

\* catalog layers: id, title, and whether the metadata is a JSON object
L_TrueColor == [id |-> <<"M","O","D","I","S","_","T","e","r","r","a","_","C","o","r","r","e","c","t","e","d","R","e","f","l","e","c","t","a","n","c","e","_","T","r","u","e","C","o","l","o","r">>,
                title |-> <<"C","o","r","r","e","c","t","e","d"," ","R","e","f","l","e","c","t","a","n","c","e"," ","(","T","r","u","e"," ","C","o","l","o","r",")">>, meta_is_dict |-> TRUE]

L_AquaTrueColor == [id |-> <<"M","O","D","I","S","_","A","q","u","a","_","C","o","r","r","e","c","t","e","d","R","e","f","l","e","c","t","a","n","c","e","_","T","r","u","e","C","o","l","o","r">>,
                    title |-> <<"C","o","r","r","e","c","t","e","d"," ","R","e","f","l","e","c","t","a","n","c","e"," ","(","T","r","u","e"," ","C","o","l","o","r",")">>, meta_is_dict |-> TRUE]

L_Fires == [id |-> <<"V","I","I","R","S","_","S","N","P","P","_","T","h","e","r","m","a","l","_","A","n","o","m","a","l","i","e","s","_","3","7","5","m","_","A","l","l">>,
            title |-> <<"F","i","r","e","s"," ","a","n","d"," ","T","h","e","r","m","a","l"," ","A","n","o","m","a","l","i","e","s">>, meta_is_dict |-> TRUE]

L_Aerosol == [id |-> <<"M","O","D","I","S","_","T","e","r","r","a","_","A","e","r","o","s","o","l">>,
              title |-> <<"A","e","r","o","s","o","l"," ","O","p","t","i","c","a","l"," ","D","e","p","t","h">>, meta_is_dict |-> TRUE]

L_Snow == [id |-> <<"M","O","D","I","S","_","T","e","r","r","a","_","N","D","S","I","_","S","n","o","w","_","C","o","v","e","r">>,
           title |-> <<"S","n","o","w"," ","C","o","v","e","r">>, meta_is_dict |-> TRUE]

L_Dust == [id |-> <<"M","E","R","R","A","2","_","D","u","s","t","_","S","u","r","f","a","c","e","_","M","a","s","s">>,
           title |-> <<"D","u","s","t"," ","S","u","r","f","a","c","e"," ","M","a","s","s"," ","C","o","n","c","e","n","t","r","a","t","i","o","n">>, meta_is_dict |-> TRUE]

L_Flood == [id |-> <<"M","O","D","I","S","_","C","o","m","b","i","n","e","d","_","F","l","o","o","d","_","2","D","a","y">>,
            title |-> <<"F","l","o","o","d"," ","(","2","-","D","a","y"," ","W","i","n","d","o","w",")">>, meta_is_dict |-> TRUE]

L_TitleOnly == [id |-> <<"B","l","u","e","M","a","r","b","l","e","_","N","e","x","t","G","e","n","e","r","a","t","i","o","n">>,
                title |-> <<"B","l","u","e"," ","M","a","r","b","l","e"," ","T","r","u","e"," ","C","o","l","o","r">>, meta_is_dict |-> TRUE]

L_BadMeta == [id |-> <<"B","r","o","k","e","n","_","L","a","y","e","r">>, title |-> <<>>, meta_is_dict |-> FALSE]

\* a parsed wv.json that is a JSON object with a "layers" object
Catalog(layers) ==
    [available |-> TRUE, is_dict |-> TRUE, has_layers |-> TRUE,
     layers_is_dict |-> TRUE, layers |-> layers]

\* the parsed bodies the catalog fetch may return
Catalogs == {
    Catalog(<<L_TrueColor, L_Fires, L_Aerosol, L_Snow, L_Dust, L_Flood>>),
    Catalog(<<L_Aerosol, L_AquaTrueColor, L_Fires>>),
    Catalog(<<L_Fires, L_Aerosol, L_Snow, L_Dust, L_Flood>>),
    Catalog(<<L_Fires, L_TitleOnly>>),
    Catalog(<<L_TitleOnly>>),
    Catalog(<<L_Fires, L_BadMeta>>),
    Catalog(<<>>),
    [available |-> TRUE, is_dict |-> TRUE, has_layers |-> FALSE,
     layers_is_dict |-> TRUE, layers |-> <<>>],
    [available |-> TRUE, is_dict |-> TRUE, has_layers |-> TRUE,
     layers_is_dict |-> FALSE, layers |-> <<>>],
    [available |-> TRUE, is_dict |-> FALSE, has_layers |-> FALSE,
     layers_is_dict |-> FALSE, layers |-> <<>>] }

\* the ways _fetch_wv_config raises
FetchErrors == {"unreachable", "timeout", "malformed body"}

(* ------------------------------------------------------------------ *)
(* worldview_link as a state machine                                   *)
(* ------------------------------------------------------------------ *)

VARIABLES
    wv_pc,      \* position in worldview_link
    query,      \* argument query
    date,       \* argument date
    bbox,       \* argument bbox
    layers,     \* argument layers
    t,          \* local t
    bbox_val,   \* local bbox_val
    config,     \* local config (NoConfig when the fetch or the search raised)
    selected,   \* local selected
    parts,      \* local parts of _search_layers (unset until line 159 runs)
    picked,     \* selected of _search_layers after its loop over the parts
                \* (lines 186-198), unset until that loop has ended
    fetches,    \* number of calls of _fetch_wv_config
    caught,     \* the exception the except clause of line 262 caught, if any
    url         \* the returned URL (unset until worldview_link returns)

wv_vars == <<wv_pc, query, date, bbox, layers, t, bbox_val, config, selected,
             parts, picked, fetches, caught, url>>

wv_Init ==
    /\ wv_pc = "idle"
    /\ query = <<>> /\ date = NoDate /\ bbox = None /\ layers = NoLayers
    /\ t = Unset /\ bbox_val = None /\ config = NoConfig
    /\ selected = <<>> /\ parts = Unset /\ picked = Unset /\ fetches = 0 /\ caught = "nothing"
    /\ url = Unset

\* the state of llm_node
VARIABLES
    ll_pc,          \* position in llm_node
    transcript,     \* local transcript
    new_messages,   \* local new_messages
    resp,           \* local resp
    rounds,         \* local rounds
    tool_messages,  \* local tool_messages of the current round
    call_idx,       \* position of `for tc in resp.tool_calls`
    invocations,    \* number of llm.invoke calls so far
    output          \* the "output" of the returned state

ll_vars == <<ll_pc, transcript, new_messages, resp, rounds, tool_messages,
             call_idx, invocations, output>>

ll_Init ==
    /\ ll_pc = "entry"
    /\ transcript = <<>> /\ new_messages = <<>>
    /\ resp = Unset
    /\ rounds = 0 /\ tool_messages = <<>> /\ call_idx = 0
    /\ invocations = 0
    /\ output = Unset

\* ExplicitGiven requiring more than one layer
ExplicitGiven_MoreThanOne(ls) == ls.given /\ Len(ls.list) > 1

\* `layers and len(layers) > 0`
ExplicitGiven(ls) == ls.given /\ Len(ls.list) > 0

\* lines 248-256: t, bbox_val, and the explicit override
Invoke ==
    /\ wv_pc = "idle"
    /\ \E q \in Queries, d \in Dates, b \in BBoxes, ls \in LayerArgs :
        /\ query' = q /\ date' = d /\ bbox' = b /\ layers' = ls
        /\ t' = Assigned(_iso_date(d))
        /\ bbox_val' = _infer_bbox(q, b)
        /\ IF ExplicitGiven(ls)
           THEN selected' = ls.list /\ wv_pc' = "build"
           ELSE selected' = <<>> /\ wv_pc' = "fetch"
    /\ UNCHANGED <<config, parts, picked, fetches, caught, url, ll_vars>>

\* the parts _search_layers computes, unset when it returns or raises before
PartsSeen(c, q) ==
    IF c.is_dict /\ c.layers_is_dict /\ LayersOf(c) # <<>>
    THEN Assigned(_split_query_parts(q)) ELSE Unset

\* the selection _search_layers holds when its loop over the parts has ended
\* (lines 186-198), unset when it returns or raises before
PickedSeen(c, q) ==
    IF c.is_dict /\ c.layers_is_dict /\ LayersOf(c) # <<>>
       /\ ~ScoreRaises(LayersOf(c), _split_query_parts(q))
    THEN Assigned(PickPerPart(LayersOf(c), _split_query_parts(q), <<>>)) ELSE Unset

\* FetchReturns without the default of lines 260-261 for an empty search result
FetchReturns_NoDefault ==
    /\ wv_pc = "fetch"
    /\ \E c \in Catalogs :
        LET r == _search_layers(c, query) IN
        /\ parts' = PartsSeen(c, query)
        /\ picked' = PickedSeen(c, query)
        /\ IF r.raised
           THEN /\ selected' = <<DefaultTrueColor>> /\ config' = NoConfig
                /\ caught' = "search raised"
           ELSE /\ selected' = r.value
                /\ config' = c
                /\ caught' = caught
    /\ fetches' = fetches + 1
    /\ wv_pc' = "merge"
    /\ UNCHANGED <<query, date, bbox, layers, t, bbox_val, url, ll_vars>>

\* lines 257-261: the fetch returns a parsed body and _search_layers runs;
\* an exception in it is caught by the except clause of lines 262-264
FetchReturns ==
    /\ wv_pc = "fetch"
    /\ \E c \in Catalogs :
        LET r == _search_layers(c, query) IN
        /\ parts' = PartsSeen(c, query)
        /\ picked' = PickedSeen(c, query)
        /\ IF r.raised
           THEN /\ selected' = <<DefaultTrueColor>> /\ config' = NoConfig
                /\ caught' = "search raised"
           ELSE /\ selected' = IF r.value = <<>> THEN <<DefaultTrueColor>> ELSE r.value
                /\ config' = c
                /\ caught' = caught
    /\ fetches' = fetches + 1
    /\ wv_pc' = "merge"
    /\ UNCHANGED <<query, date, bbox, layers, t, bbox_val, url, ll_vars>>

\* FetchFails without the default true-color layer of line 263
FetchFails_NoDefault ==
    /\ wv_pc = "fetch"
    /\ \E e \in FetchErrors : caught' = e
    /\ selected' = <<>>
    /\ config' = NoConfig
    /\ fetches' = fetches + 1
    /\ wv_pc' = "merge"
    /\ UNCHANGED <<query, date, bbox, layers, t, bbox_val, parts, picked, url, ll_vars>>

\* lines 262-264: _fetch_wv_config raises
FetchFails ==
    /\ wv_pc = "fetch"
    /\ \E e \in FetchErrors : caught' = e
    /\ selected' = <<DefaultTrueColor>>
    /\ config' = NoConfig
    /\ fetches' = fetches + 1
    /\ wv_pc' = "merge"
    /\ UNCHANGED <<query, date, bbox, layers, t, bbox_val, parts, picked, url, ll_vars>>

\* lines 266-271: the offline heuristic merge
Merge ==
    /\ wv_pc = "merge"
    /\ selected' = MergeHeuristic(selected, _offline_select_from_query(query), 1)
    /\ wv_pc' = "enforce"
    /\ UNCHANGED <<query, date, bbox, layers, t, bbox_val, config, parts, picked, fetches, caught, url, ll_vars>>

\* lines 277-280: the true-color id worldview_link would insert
BaseTrueColor(cfg) ==
    IF cfg.available THEN _prefer_true_color(cfg) ELSE DefaultTrueColor

\* lines 273-276: whether the enforcement looks for a base layer at all
NeedsBase(sel, q) == ~has_true_color(sel) /\ (hinted(q) \/ Len(sel) = 1)

\* EnforceTrueColor triggered by any non-empty selection, not by exactly one
EnforceTrueColor_AnySize(sel, q, cfg) ==
    IF ~has_true_color(sel) /\ (hinted(q) \/ Len(sel) >= 1)
    THEN LET tc == BaseTrueColor(cfg) IN
         IF tc # NoId /\ ~InList(tc, sel) THEN <<tc>> \o sel ELSE sel
    ELSE sel

\* lines 273-282: the base true-color layer goes to the front when one is
\* looked for, found, and not yet selected
EnforceTrueColor(sel, q, cfg) ==
    IF NeedsBase(sel, q)
    THEN LET tc == BaseTrueColor(cfg) IN
         IF tc # NoId /\ ~InList(tc, sel) THEN <<tc>> \o sel ELSE sel
    ELSE sel

\* lines 273-282: true-color enforcement on the merged selection; an exception
\* of _prefer_true_color (line 278, outside the try) would leave worldview_link
Enforce ==
    /\ wv_pc = "enforce"
    /\ IF NeedsBase(selected, query) /\ config.available /\ PreferTrueColorRaises(config)
       THEN selected' = selected /\ wv_pc' = "raised"
       ELSE /\ selected' = EnforceTrueColor(selected, query, config)
            /\ wv_pc' = "build"
    /\ UNCHANGED <<query, date, bbox, layers, t, bbox_val, config, parts, picked, fetches, caught, url, ll_vars>>

\* lines 284-287: the final slice and the URL
Build ==
    /\ wv_pc = "build"
    /\ selected' = Take(selected, max_layers)
    /\ url' = Assigned(_build_worldview_url(Take(selected, max_layers), t.value, bbox_val))
    /\ wv_pc' = "done"
    /\ UNCHANGED <<query, date, bbox, layers, t, bbox_val, config, parts, picked, fetches, caught, ll_vars>>

(* ------------------------------------------------------------------ *)
(* graph.py: llm_node, the tool-invocation loop                        *)
(* ------------------------------------------------------------------ *)

\* most tool calls in one model reply
MaxCalls == 2

\* max_tool_rounds of llm_node
max_tool_rounds == 3

\* name_to_tool: the names of the registered tools
name_to_tool == {"worldview_link"}

\* the tool names a model reply may request
RequestedNames == {"worldview_link", "web_search"}

\* the tool_calls lists a model reply may carry: names, in the order emitted
CallLists == UNION {[1..n -> RequestedNames] : n \in 0..MaxCalls}

\* the transcripts llm_node may be entered with: state["messages"] after prepare_node
Histories == {<<>>, <<"system", "human">>}

\* AIMessage: the reply of the k-th model invocation, carrying tool calls with
\* the ids the model gave them (one per invocation and position)
AIMessage(k, names) ==
    [type |-> "ai", content |-> "reply", n |-> k, tool_call_id |-> <<0, 0>>,
     tool_calls |-> [i \in 1..Len(names) |-> [name |-> names[i], id |-> <<k, i>>]]]

\* ToolMessage dropping the call id it is given
ToolMessage_Uncorrelated(content, id) ==
    [type |-> "tool", content |-> content, n |-> 0, tool_call_id |-> <<0, 0>>, tool_calls |-> <<>>]

\* ToolMessage(content=..., tool_call_id=...)
ToolMessage(content, id) ==
    [type |-> "tool", content |-> content, n |-> 0, tool_call_id |-> id, tool_calls |-> <<>>]

\* a system or human message of the incoming history
HistoryMessage(kind) ==
    [type |-> kind, content |-> "prompt", n |-> 0, tool_call_id |-> <<0, 0>>, tool_calls |-> <<>>]

\* lines 111-116: an empty transcript returns at once
Enter ==
    /\ ll_pc = "entry"
    /\ \E h \in Histories :
        /\ transcript' = [i \in 1..Len(h) |-> HistoryMessage(h[i])]
        /\ IF h = <<>>
           THEN ll_pc' = "done" /\ output' = Assigned("")
           ELSE ll_pc' = "first_invoke" /\ output' = output
    /\ UNCHANGED <<new_messages, resp, rounds, tool_messages, call_idx, invocations, wv_vars>>

\* lines 119-125: the first model call
FirstInvoke ==
    /\ ll_pc = "first_invoke"
    /\ \E names \in CallLists :
        LET reply == AIMessage(invocations + 1, names) IN
        /\ resp' = Assigned(reply)
        /\ transcript' = Append(transcript, reply)
        /\ new_messages' = Append(new_messages, reply)
    /\ invocations' = invocations + 1
    /\ rounds' = 0
    /\ ll_pc' = "while"
    /\ UNCHANGED <<tool_messages, call_idx, output, wv_vars>>

\* WhileCondition with the cap off by one (<= for <)
WhileCondition_OneMore(r, n) == r.value.tool_calls # <<>> /\ n <= max_tool_rounds

\* WhileCondition with the cap one round short
WhileCondition_OneLess(r, n) == r.value.tool_calls # <<>> /\ n < max_tool_rounds - 1

\* the while condition of lines 126-130 (resp is always an AIMessage)
WhileCondition(r, n) == r.value.tool_calls # <<>> /\ n < max_tool_rounds

\* lines 126-131: the condition holds, a round starts
EnterRound ==
    /\ ll_pc = "while"
    /\ WhileCondition(resp, rounds)
    /\ tool_messages' = <<>>
    /\ call_idx' = 1
    /\ ll_pc' = "for"
    /\ UNCHANGED <<transcript, new_messages, resp, rounds, invocations, output, wv_vars>>

\* Registered taking every requested name for a tool
Registered_Any(name) == name \in RequestedNames

\* lines 136-138: the lookup in the registry
Registered(name) == name \in name_to_tool

\* lines 132-143: one iteration of `for tc in resp.tool_calls`; an unknown
\* name is skipped, a known tool's result or exception becomes a ToolMessage
ToolCall ==
    /\ ll_pc = "for"
    /\ call_idx <= Len(resp.value.tool_calls)
    /\ LET tc == resp.value.tool_calls[call_idx] IN
       IF ~Registered(tc.name)
       THEN tool_messages' = tool_messages
       ELSE \E content \in {"url", "Tool error"} :
                tool_messages' = Append(tool_messages, ToolMessage(content, tc.id))
    /\ call_idx' = call_idx + 1
    /\ UNCHANGED <<ll_pc, transcript, new_messages, resp, rounds, invocations, output, wv_vars>>

\* lines 145-146: no tool message in this round, break
BreakRound ==
    /\ ll_pc = "for"
    /\ call_idx > Len(resp.value.tool_calls)
    /\ tool_messages = <<>>
    /\ ll_pc' = "return"
    /\ UNCHANGED <<transcript, new_messages, resp, rounds, tool_messages, call_idx,
                   invocations, output, wv_vars>>

\* lines 148-149: the round's tool messages are appended
ExtendTranscript ==
    /\ ll_pc = "for"
    /\ call_idx > Len(resp.value.tool_calls)
    /\ tool_messages # <<>>
    /\ transcript' = transcript \o tool_messages
    /\ new_messages' = new_messages \o tool_messages
    /\ ll_pc' = "invoke"
    /\ UNCHANGED <<resp, rounds, tool_messages, call_idx, invocations, output, wv_vars>>

\* lines 151-154: the model is invoked again and the round is counted
LoopInvoke ==
    /\ ll_pc = "invoke"
    /\ \E names \in CallLists :
        LET reply == AIMessage(invocations + 1, names) IN
        /\ resp' = Assigned(reply)
        /\ transcript' = Append(transcript, reply)
        /\ new_messages' = Append(new_messages, reply)
    /\ invocations' = invocations + 1
    /\ rounds' = rounds + 1
    /\ ll_pc' = "while"
    /\ UNCHANGED <<tool_messages, call_idx, output, wv_vars>>

\* the while condition fails: the loop is left
ExitLoop ==
    /\ ll_pc = "while"
    /\ ~WhileCondition(resp, rounds)
    /\ ll_pc' = "return"
    /\ UNCHANGED <<transcript, new_messages, resp, rounds, tool_messages, call_idx,
                   invocations, output, wv_vars>>

\* lines 157-158: the final text is returned
Return ==
    /\ ll_pc = "return"
    /\ output' = Assigned(resp.value.content)
    /\ ll_pc' = "done"
    /\ UNCHANGED <<transcript, new_messages, resp, rounds, tool_messages, call_idx,
                   invocations, wv_vars>>

(* ------------------------------------------------------------------ *)
(* Specifications                                                      *)
(* ------------------------------------------------------------------ *)

vars == <<wv_vars, ll_vars>>

Init == wv_Init /\ ll_Init

\* one call of worldview_link
Next == Invoke \/ FetchReturns \/ FetchFails \/ Merge \/ Enforce \/ Build

Spec == Init /\ [][Next]_vars

\* one turn of llm_node
LoopNext ==
    \/ Enter \/ FirstInvoke \/ EnterRound \/ ToolCall \/ BreakRound
    \/ ExtendTranscript \/ LoopInvoke \/ ExitLoop \/ Return

LoopSpec == Init /\ [][LoopNext]_vars

(* ------------------------------------------------------------------ *)
(* Properties                                                          *)
(* ------------------------------------------------------------------ *)

\* the layer list of the returned URL: the value of its l parameter
UrlLayers ==
    IF url.set /\ url.value[1].k = "l" THEN url.value[1].v ELSE <<>>

\* the value of the v parameter of the returned URL
UrlV == url.value[Len(url.value)].v

\* no element occurs twice
NoDuplicates(list) ==
    \A i, j \in 1..Len(list) : i # j => list[i] # list[j]

\* some id of the list carries the true-color marker
Marked(list) ==
    \E i \in 1..Len(list) :
        Contains(list[i], <<"C","o","r","r","e","c","t","e","d","R","e","f","l","e","c","t","a","n","c","e","_","T","r","u","e","C","o","l","o","r">>)

\* the query, compared case-insensitively, contains "true color"
QueryAsksTrueColor == Contains(Lower(query), <<"t","r","u","e"," ","c","o","l","o","r">>)

\* a non-empty explicit layers list was passed
ExplicitLayers == layers.given /\ layers.list # <<>>

(* C1: in one turn of llm_node the model is invoked at most 4 times (the first
   invocation and at most 3 more), whatever the replies request. *)
C1_AtMostFourInvocations == invocations <= 4

\* a turn in which every reply requested a tool and the cap ended it
C1_Witness ==
    /\ ll_pc = "done" /\ invocations = 4
    /\ \A i \in 1..Len(new_messages) :
          new_messages[i].type = "ai" => new_messages[i].tool_calls # <<>>

(* C2 as stated: for every query, catalog, date, bbox and explicit layers
   argument, the layer list of the URL has at most 4 ids and no id twice. *)
C2_Original ==
    url.set => Len(UrlLayers) <= 4 /\ NoDuplicates(UrlLayers)

(* C2 amended: the layer list of the URL has at most 4 ids for every input,
   and contains no id twice when no explicit layers are given. *)
C2_AtMostFourAndDistinctUnlessExplicit ==
    url.set => /\ Len(UrlLayers) <= 4
               /\ (~ExplicitLayers => NoDuplicates(UrlLayers))

\* a call without explicit layers whose catalog search and merge filled the list
C2_Witness ==
    /\ wv_pc = "done" /\ ~ExplicitLayers /\ config.available
    /\ Len(UrlLayers) = 4

(* C3 as stated: whenever the query contains "true color" (case-insensitively)
   the layer list of the URL contains a true-color-marked id, for every
   catalog state and every value of the other arguments. *)
C3_Original ==
    (url.set /\ QueryAsksTrueColor) => Marked(UrlLayers)

\* the catalog is unavailable or empty, or its true-color layer is a marked id
C3_CatalogOffersMarked ==
    \/ ~config.available
    \/ ~config.has_layers \/ ~config.layers_is_dict \/ config.layers = <<>>
    \/ \E i \in 1..Len(preferred_ids) : \E j \in 1..Len(config.layers) :
          config.layers[j].id = preferred_ids[i]

(* C3 amended: whenever the query contains "true color" (case-insensitively),
   no explicit layers are given, and the catalog is unavailable, has no layers
   or contains one of the three preferred true-color ids, the layer list of
   the URL contains a true-color-marked id. *)
C3_TrueColorWhenAskedAndOffered ==
    (url.set /\ QueryAsksTrueColor /\ ~ExplicitLayers /\ C3_CatalogOffersMarked)
        => Marked(UrlLayers)

\* a hinted query answered from a catalog, with a true-color id in the list
C3_Witness ==
    /\ wv_pc = "done" /\ QueryAsksTrueColor /\ ~ExplicitLayers
    /\ config.available /\ config.layers # <<>>
    /\ Len(UrlLayers) >= 3 /\ Marked(UrlLayers)

(* C4 as stated: with a non-empty explicit layers list the l parameter is
   exactly that list, in the given order, and no catalog fetch is attempted. *)
C4_Original ==
    (url.set /\ ExplicitLayers) => (UrlLayers = layers.list /\ fetches = 0)

(* C4 amended: with a non-empty explicit layers list the l parameter is exactly
   the first 4 entries of that list, in the given order (the whole list when it
   has at most 4), whatever the query and the catalog, and no catalog fetch is
   attempted. *)
C4_ExplicitFirstFourVerbatim ==
    (url.set /\ ExplicitLayers) =>
        /\ UrlLayers = SubSeq(layers.list, 1,
                              IF Len(layers.list) < 4 THEN Len(layers.list) ELSE 4)
        /\ fetches = 0

\* an explicit list of 5 with a query that asks for true color
C4_Witness ==
    /\ wv_pc = "done" /\ ExplicitLayers /\ Len(layers.list) = 5
    /\ QueryAsksTrueColor /\ Len(UrlLayers) = 4

\* the calls of a reply that name no registered tool
UnknownCalls(msg) ==
    {i \in 1..Len(msg.tool_calls) : msg.tool_calls[i].name # "worldview_link"}

\* the transcript holds a tool message for call id `id` with this content
Answered(id, content) ==
    \E p \in 1..Len(transcript) :
        /\ transcript[p].type = "tool"
        /\ transcript[p].tool_call_id = id
        /\ transcript[p].content = content

\* the replies whose tool calls a finished turn has processed
ProcessedReplies ==
    {p \in 1..Len(transcript) :
        /\ transcript[p].type = "ai"
        /\ p < Len(transcript)}

(* C5 as stated: a tool call whose name is not in the registry is answered with
   an inline error tool message, appended to the transcript before the next
   model invocation. *)
C5_Original ==
    ll_pc = "done" =>
        \A p \in ProcessedReplies : \A i \in UnknownCalls(transcript[p]) :
            Answered(transcript[p].tool_calls[i].id, "Tool error")

(* C5 amended: a tool call whose name is not in the registry is skipped: no tool
   message with its call id is ever appended to the transcript, so the model
   gets no answer to it. *)
C5_UnknownToolSkipped ==
    \A p \in 1..Len(transcript) : \A i \in UnknownCalls(transcript[p]) :
        \A content \in {"url", "Tool error"} :
            ~Answered(transcript[p].tool_calls[i].id, content)

\* a round with a registered and an unknown call, after which the model ran again
C5_Witness ==
    /\ ll_pc = "done"
    /\ \E p \in ProcessedReplies :
          /\ UnknownCalls(transcript[p]) # {}
          /\ \E i \in 1..Len(transcript[p].tool_calls) :
                Answered(transcript[p].tool_calls[i].id, "url")

\* the latest reply requests at least one registered tool
RequestsRegistered ==
    resp.set /\ \E i \in 1..Len(resp.value.tool_calls) :
        resp.value.tool_calls[i].name = "worldview_link"

(* C6 as stated: the loop returns only when the latest reply carries no tool
   calls or 3 rounds are done. *)
C6_Original ==
    ll_pc = "return" => (resp.value.tool_calls = <<>> \/ rounds = 3)

(* C6 amended: the loop returns in three situations: the latest reply carries no
   tool calls, 3 rounds are done, or no call of the latest reply names a
   registered tool (the round produced no tool message); every completed round
   is followed by exactly one model invocation. *)
C6_ReturnsOnlyWhenDoneCappedOrNothingRan ==
    /\ (ll_pc \in {"return", "done"} /\ resp.set) =>
          \/ resp.value.tool_calls = <<>>
          \/ rounds = 3
          \/ ~RequestsRegistered
    /\ (ll_pc \in {"while", "return", "done"} /\ resp.set) => invocations = rounds + 1

\* the loop left on a reply that requests only unknown tools, before the cap
C6_Witness ==
    /\ ll_pc = "return" /\ resp.value.tool_calls # <<>> /\ rounds = 1
    /\ ~RequestsRegistered

(* C7: no catalog state makes worldview_link end in an exception; when the
   catalog fetch fails, times out or returns a malformed body, it goes on to
   return a URL whose layer list is the fixed default true-color id followed
   by the offline matcher's picks for the query. *)
C7_FetchFailureFallsBackOffline ==
    /\ wv_pc # "raised"
    /\ caught # "nothing" => wv_pc \in {"merge", "enforce", "build", "done"}
    /\ (caught # "nothing" /\ wv_pc = "done") =>
          /\ url.set
          /\ UrlLayers = <<<<"M","O","D","I","S","_","T","e","r","r","a","_","C","o","r","r","e","c","t","e","d","R","e","f","l","e","c","t","a","n","c","e","_","T","r","u","e","C","o","l","o","r">>>>
                            \o _offline_select_from_query(query)

\* a timed-out fetch answered with the default and two offline picks
C7_Witness ==
    /\ wv_pc = "done" /\ caught = "timeout"
    /\ Len(UrlLayers) = 3

\* the place names of the table contained in the lower-cased query
PlaceHits ==
    {i \in 1..Len(BBOX_HINTS) : Contains(Lower(query), BBOX_HINTS[i].key)}

(* C8: the v parameter is the explicit bbox verbatim when one is given (an
   empty string counts as none); otherwise the bbox of the first entry, in
   table order, whose name is in the lower-cased query; otherwise
   "-180,-90,180,90".  Layers, date and catalog play no part. *)
C8_BBoxChoice ==
    url.set =>
        UrlV = IF bbox # None /\ bbox # "" THEN bbox
               ELSE IF PlaceHits # {}
                    THEN BBOX_HINTS[CHOOSE i \in PlaceHits :
                                       \A j \in PlaceHits : i <= j].value
                    ELSE "-180,-90,180,90"

\* two place names in the query: the one declared first wins, not the one
\* that comes first in the query
C8_Witness ==
    /\ wv_pc = "done" /\ bbox = None /\ Cardinality(PlaceHits) = 2
    /\ UrlV = "87,20,93,27"

\* the separators applied one after the other, each to the pieces left by the
\* one before
RECURSIVE SuccessiveSplit(_, _)
SuccessiveSplit(pieces, i) ==
    IF i > Len(seps) THEN pieces
    ELSE SuccessiveSplit(SplitEach(pieces, seps[i]), i + 1)

(* C9: _split_query_parts splits the query at every occurrence of each of the
   four separators, each applied to the pieces left by the previous one, so
   "true color + smoke" yields the phrases "true color" and "smoke". *)
C9_SeparatorsCompose ==
    parts.set =>
        parts.value = Dedupe(Cleaned(SuccessiveSplit(<<Lower(query)>>, 1)))

\* the selection the merge yields when no enforcement ran before it: the
\* per-phrase picks (the default when there are none) plus the offline picks
C10_MergedWithoutEarlierEnforcement ==
    LET picks == PickPerPart(config.layers, _split_query_parts(query), <<>>)
    IN  MergeHeuristic(IF picks = <<>> THEN <<DefaultTrueColor>> ELSE picks,
                       _offline_select_from_query(query), 1)

(* C10 as stated: enforcement is applied once, to the selection after the
   offline merge: with no hint in the query and two or more merged members,
   none of them marked, the final layer list contains no true-color id. *)
C10_Original ==
    ( /\ url.set /\ ~ExplicitLayers /\ config.available /\ config.layers # <<>>
      /\ ~QueryAsksTrueColor
      /\ Len(C10_MergedWithoutEarlierEnforcement) >= 2
      /\ ~Marked(C10_MergedWithoutEarlierEnforcement) )
    => ~Marked(UrlLayers)

(* C10 amended: enforcement is applied twice, inside _search_layers to the
   catalog picks before the merge and again after the merge; when the query
   has no hint and the selection as it stands after the merge has two or more
   members, none of them marked, the second application inserts nothing and
   the final layer list contains no true-color id. *)
C10_SecondEnforcementLeavesOverlays ==
    [][ /\ (wv_pc = "enforce" /\ ~QueryAsksTrueColor
              /\ Len(selected) >= 2 /\ ~Marked(selected))
           => selected' = selected
        /\ (wv_pc = "build" /\ ~Marked(selected))
           => (~Marked(selected') /\ (url'.value[1].k = "l" => ~Marked(url'.value[1].v)))
      ]_vars

\* two unmarked overlays after the merge, no hint: the list stays without base
C10_Witness ==
    /\ wv_pc = "done" /\ ~ExplicitLayers /\ ~QueryAsksTrueColor
    /\ config.available /\ Len(UrlLayers) >= 2 /\ ~Marked(UrlLayers)

\* the score the catalog entry at position i gets for a phrase
C11_ScoreAt(ls, i, part) == score_layer(ls[i].id, ls[i].title, part)

\* among the catalog positions cand, the one scoring highest above 0 for the
\* phrase, the earliest in catalog order on a tie; 0 when none scores above 0
C11_BestAmong(ls, cand, part) ==
    LET ok == {i \in cand : C11_ScoreAt(ls, i, part) > 0} IN
    IF ok = {} THEN 0
    ELSE CHOOSE i \in ok : \A j \in ok :
            \/ C11_ScoreAt(ls, j, part) < C11_ScoreAt(ls, i, part)
            \/ (C11_ScoreAt(ls, j, part) = C11_ScoreAt(ls, i, part) /\ j >= i)

\* the selection built phrase by phrase, each phrase adding at most one id and
\* the walk ending once max_layers ids are selected. With bestOnly a phrase
\* offers its best entry of the whole catalog and adds nothing when that one
\* is already selected; otherwise it offers its best entry among those not
\* yet selected
RECURSIVE C11_Picks(_, _, _, _)
C11_Picks(ls, ps, sel, bestOnly) ==
    IF ps = <<>> THEN sel
    ELSE LET cand == IF bestOnly THEN 1..Len(ls)
                     ELSE {i \in 1..Len(ls) : ~InList(ls[i].id, sel)}
             b == C11_BestAmong(ls, cand, Head(ps))
             nxt == IF b = 0 \/ InList(ls[b].id, sel) THEN sel ELSE Append(sel, ls[b].id)
         IN  IF Len(nxt) >= max_layers THEN nxt
             ELSE C11_Picks(ls, Tail(ps), nxt, bestOnly)

\* C11 as stated: in _search_layers each phrase contributes only its single
\* best layer (highest score above 0, earliest in catalog order on a tie), and
\* adds nothing when that layer is already selected
C11_Original ==
    picked.set => picked.value = C11_Picks(LayersOf(config), parts.value, <<>>, TRUE)

\* C11: in _search_layers each phrase contributes at most one layer, the entry
\* scoring highest above 0 among the entries not yet selected (earliest in
\* catalog order on a tie); a phrase whose best layer is already selected
\* contributes its next-best unselected layer, and adds nothing only when no
\* unselected entry scores above 0; no id is selected twice and the loop ends
\* at max_layers ids
C11_EachPhraseAddsBestUnselected ==
    picked.set =>
        /\ picked.value = C11_Picks(LayersOf(config), parts.value, <<>>, FALSE)
        /\ NoDuplicates(picked.value)
        /\ Len(picked.value) <= max_layers

\* a search in which a phrase whose best layer was already selected added a
\* lower-scoring one
C11_Witness ==
    /\ picked.set
    /\ picked.value # C11_Picks(LayersOf(config), parts.value, <<>>, TRUE)
    /\ Len(picked.value) >= 2

\* the ids of the calls naming a registered tool, in the order the reply lists them
RECURSIVE C12_RegisteredIds(_)
C12_RegisteredIds(calls) ==
    IF calls = <<>> THEN <<>>
    ELSE (IF Head(calls).name = "worldview_link" THEN <<Head(calls).id>> ELSE <<>>)
         \o C12_RegisteredIds(Tail(calls))

\* what a step appends to the transcript
C12_Appended == SubSeq(transcript', Len(transcript) + 1, Len(transcript'))

\* a step keeps every message the transcript already holds, at its position
C12_TranscriptKept ==
    /\ Len(transcript') >= Len(transcript)
    /\ SubSeq(transcript', 1, Len(transcript)) = transcript

\* tool-result messages answering exactly the calls with these ids, in this
\* order, each a success or an error text
C12_Answers(msgs, ids) ==
    /\ Len(msgs) = Len(ids)
    /\ \A i \in 1..Len(msgs) :
          /\ msgs[i].type = "tool"
          /\ msgs[i].tool_call_id = ids[i]
          /\ msgs[i].content \in {"url", "Tool error"}

(* C12: in every executed tool round of llm_node the tool-result messages
   appended to the transcript are exactly one per requested call that names a
   registered tool, in the order the model emitted the calls, each carrying its
   own call id; a call whose execution fails gets a result with an error text
   and the round goes on to the next call; messages already in the transcript
   are never changed or removed. *)
C12_OneResultPerRegisteredCallInOrder ==
    [][ /\ C12_TranscriptKept
        /\ (ll_pc = "for" /\ ll_pc' # "for")
           => C12_Answers(C12_Appended, C12_RegisteredIds(resp.value.tool_calls))
        /\ (ll_pc = "for" /\ ll_pc' = "for")
           => /\ transcript' = transcript
              /\ call_idx' = call_idx + 1
              /\ C12_Answers(tool_messages',
                             C12_RegisteredIds(SubSeq(resp.value.tool_calls, 1, call_idx)))
      ]_vars

\* a finished turn whose first round had two registered calls, the first one
\* failing and the second one succeeding, both answered in order before the
\* model ran again
C12_Witness ==
    /\ ll_pc = "done"
    /\ Len(transcript) >= 6
    /\ transcript[3].type = "ai" /\ Len(transcript[3].tool_calls) = 2
    /\ transcript[4].type = "tool" /\ transcript[4].content = "Tool error"
    /\ transcript[4].tool_call_id = transcript[3].tool_calls[1].id
    /\ transcript[5].type = "tool" /\ transcript[5].content = "url"
    /\ transcript[5].tool_call_id = transcript[3].tool_calls[2].id
    /\ transcript[6].type = "ai"

(* C13: when worldview_link is called without explicit layers, the selection is
   never empty from the end of the try block on, for any query and any catalog
   state, so the returned URL carries an l parameter with at least one layer
   id; no call of worldview_link returns the URL form without l. *)
C13_SelectionNeverEmpty ==
    /\ (~ExplicitLayers /\ wv_pc \in {"merge", "enforce", "build", "done"})
          => selected # <<>>
    /\ url.set => (url.value[1].k = "l" /\ url.value[1].v # <<>>)
    /\ (wv_pc = "done" /\ ~ExplicitLayers) => (url.set /\ UrlLayers = selected)

\* a catalog search that found nothing for a query without offline picks: the
\* URL carries the default true-color layer alone
C13_Witness ==
    /\ wv_pc = "done" /\ ~ExplicitLayers
    /\ config.available /\ picked.set /\ picked.value = <<>>
    /\ _offline_select_from_query(query) = <<>>
    /\ UrlLayers = <<DefaultTrueColor>>

====
